---------------------------- MODULE Spec2Model ----------------------------
(***************************************************************************)
(* Model of bourse_bot: the Telegram notifier (src/notifier_bot.py) and    *)
(* the companion detail scraper (src/scraper/scraper.py).                  *)
(*                                                                         *)
(* A Python str is a sequence of one-character strings, so len() is Len    *)
(* and + is \o.  The parsed page is the document-order stream of the       *)
(* nodes parse_synthese looks at: block openers (a <tr>, or any other      *)
(* container element), <a>, <img> and text nodes.                          *)
(***************************************************************************)
EXTENDS Integers, Sequences, FiniteSets, TLC

VARIABLES
    html,       \* parse_synthese: the page handed to the parser
    parsed,     \* parse_synthese: [ran, result], result being its return value
    text,       \* split_long_message: the text argument
    limit,      \* split_long_message: the limit argument
    parts,      \* split_long_message: [ran, result], result being its return value
    cache,      \* _cache: [ts, data]
    clock,      \* what time.time() returns
    fetchCount, \* number of fetch_page calls made so far
    lastOk,     \* the last fetch and parse that succeeded: [has, t, items]
    run,        \* the handler run that finished last, with what it sent
    site,       \* detail scraper: what the web site serves
    db,         \* detail scraper: the three MongoDB collections
    job,        \* detail scraper: where IlboursaScraper.run stands, and its counts
    thread,     \* per thread of the bot: the statement it is at, and its locals
    stored,     \* the [ts, data] pairs that refreshes of the cache set out to store
    bucket,     \* format_items_sorted: the items argument
    listing     \* format_items_sorted: [ran, result], result being its return value

parseVars == <<html, parsed>>
splitVars == <<text, limit, parts>>
botVars == <<cache, clock, fetchCount, lastOk, run>>
storeVars == <<site, db, job>>
threadVars == <<thread, stored>>
formatVars == <<bucket, listing>>
vars == <<html, parsed, text, limit, parts, cache, clock, fetchCount, lastOk, run,
          site, db, job, thread, stored, bucket, listing>>

NotRun == [ran |-> FALSE, result |-> <<>>]
None == "None"

(***************************************************************************)
(* Python str helpers                                                      *)
(***************************************************************************)
Whitespace == {" ", "\n", "\r"}

StartsWith(s, p) ==
    /\ Len(s) >= Len(p)
    /\ SubSeq(s, 1, Len(p)) = p

\* s.split("/")[-1]
LastSegment(s) ==
    LET slashes == {i \in 1..Len(s) : s[i] = "/"}
        last == IF slashes = {} THEN 0
                ELSE CHOOSE i \in slashes : \A j \in slashes : j <= i
    IN SubSeq(s, last + 1, Len(s))

\* s.strip()
Strip(s) ==
    LET keep == {i \in 1..Len(s) : s[i] \notin Whitespace}
    IN IF keep = {} THEN <<>>
       ELSE LET lo == CHOOSE i \in keep : \A j \in keep : i <= j
                hi == CHOOSE i \in keep : \A j \in keep : j <= i
            IN SubSeq(s, lo, hi)

UpperChar(c) ==
    CASE c = "a" -> "A"
      [] c = "b" -> "B"
      [] c = "c" -> "C"
      [] c = "n" -> "N"
      [] c = "m" -> "M"
      [] OTHER -> c

\* s.upper()
Upper(s) == [i \in 1..Len(s) |-> UpperChar(s[i])]

(***************************************************************************)
(* Configuration (notifier_bot.py)                                         *)
(***************************************************************************)
F1B == <<"f", "_", "1", "b", ".", "p", "n", "g">>
F5B == <<"f", "_", "5", "b", ".", "p", "n", "g">>
F3B == <<"f", "_", "3", "b", ".", "p", "n", "g">>
F4B == <<"f", "_", "4", "b", ".", "p", "n", "g">>

ACTION_MAP ==
    (F1B :> "BUY") @@ (F5B :> "SELL") @@ (F3B :> "KEEP") @@ (F4B :> "TAKE PROFIT")

Actions == {"BUY", "SELL", "KEEP", "TAKE PROFIT"}

ConseilPrefix == <<"c", "o", "n", "s", "e", "i", "l", "/">>

(***************************************************************************)
(* parse_synthese                                                          *)
(***************************************************************************)
IsOpener(n) == n.tag \in {"tr", "div"}
IsImg(n) == n.tag = "img"

\* soup.find_all("a", href=lambda x: x and x.startswith("conseil/"))
IsCandidate(n) == n.tag = "a" /\ n.href # <<>> /\ StartsWith(n.href, ConseilPrefix)

\* position of the opener of the block holding node i (0: the document root)
BlockStart(page, i) ==
    LET os == {j \in 1..i : IsOpener(page[j])}
    IN IF os = {} THEN 0 ELSE CHOOSE j \in os : \A k \in os : k <= j

\* position just past the block holding node i
BlockEnd(page, i) ==
    LET os == {j \in (i + 1)..Len(page) : IsOpener(page[j])}
    IN IF os = {} THEN Len(page) + 1 ELSE CHOOSE j \in os : \A k \in os : j <= k

\* a.find_parent("tr")
HasRow(page, i) == BlockStart(page, i) # 0 /\ page[BlockStart(page, i)].tag = "tr"

Take(s, n) == SubSeq(s, 1, IF Len(s) < n THEN Len(s) ELSE n)

\* parent.find_all("img")
ContextImgs(page, i) == SelectSeq(SubSeq(page, BlockStart(page, i) + 1, BlockEnd(page, i) - 1), IsImg)
\* a.find_next_siblings("img")
NextSiblingImgs(page, i) == SelectSeq(SubSeq(page, i + 1, BlockEnd(page, i) - 1), IsImg)
\* a.find_all_next("img", limit=6)
AllNextImgs(page, i) == Take(SelectSeq(SubSeq(page, i + 1, Len(page)), IsImg), 6)

\* the list the for-loop over imgs runs on
SearchedImgs(page, i) ==
    IF ContextImgs(page, i) # <<>> THEN ContextImgs(page, i)
    ELSE IF NextSiblingImgs(page, i) # <<>> THEN NextSiblingImgs(page, i)
    ELSE AllNextImgs(page, i)

\* for img in imgs: ... the first filename found in ACTION_MAP, else None
RECURSIVE FirstAction(_)
FirstAction(imgs) ==
    IF imgs = <<>> THEN None
    ELSE IF Head(imgs).src = <<>> THEN FirstAction(Tail(imgs))
    ELSE IF LastSegment(Head(imgs).src) \in DOMAIN ACTION_MAP
         THEN ACTION_MAP[LastSegment(Head(imgs).src)]
    ELSE FirstAction(Tail(imgs))

InferAction(page, i) == FirstAction(SearchedImgs(page, i))

\* POTENTIAL_RE.search(text_search_area): a text node carries the value of its
\* first percent token (sign and hundredths) as a one-element tuple, or <<>>
HasPct(n) == n.tag = "text" /\ n.pct # <<>>

\* The search area is the text of the row's cells, or of the parent and the
\* following siblings; either way the text of the link's block.
Potential(page, i) ==
    LET ts == SelectSeq(SubSeq(page, BlockStart(page, i) + 1, BlockEnd(page, i) - 1), HasPct)
    IN IF ts = <<>> THEN [neg |-> FALSE, mag |-> 0] ELSE Head(ts).pct[1]

CodeOf(n) == Upper(Strip(LastSegment(n.href)))
NameOf(n) == Strip(n.text)
KeyOf(n) == <<CodeOf(n), NameOf(n)>>

\* a parser that appends the record whether or not an icon was found
Emits_Always(action) == TRUE

\* if not action: continue
Emits(action) == action # None

RECURSIVE ParseFrom(_, _, _, _)
ParseFrom(page, i, seen, results) ==
    IF i > Len(page) THEN results
    ELSE IF ~IsCandidate(page[i]) THEN ParseFrom(page, i + 1, seen, results)
    ELSE IF KeyOf(page[i]) \in seen THEN ParseFrom(page, i + 1, seen, results)
    ELSE LET action == InferAction(page, i)
             rec == [code |-> CodeOf(page[i]), name |-> NameOf(page[i]),
                     action |-> action, potential |-> Potential(page, i)]
         IN ParseFrom(page, i + 1, seen \cup {KeyOf(page[i])},
                      IF Emits(action) THEN Append(results, rec) ELSE results)

parse_synthese(page) == ParseFrom(page, 1, {}, <<>>)

(***************************************************************************)
(* Pages given to the parser                                               *)
(***************************************************************************)
MaxPageLen == 4

Tr == [tag |-> "tr"]
Div == [tag |-> "div"]
Link(href, label) == [tag |-> "a", href |-> href, text |-> label]
Img(src) == [tag |-> "img", src |-> src]
Text(pct) == [tag |-> "text", pct |-> pct]

HrefA == ConseilPrefix \o <<"a">>
HrefUpperA == ConseilPrefix \o <<"A">>
HrefBare == ConseilPrefix

ParseNodes ==
    { Tr, Div,
      Link(HrefA, <<"N">>), Link(HrefUpperA, <<" ", "N">>), Link(HrefBare, <<"M">>),
      Img(<<"/", "i", "/">> \o F1B), Img(F5B), Img(<<"x", ".", "p", "n", "g">>), Img(<<>>),
      Text(<<[neg |-> TRUE, mag |-> 320]>>) }

RECURSIVE SeqsUpTo(_, _)
SeqsUpTo(S, n) ==
    IF n = 0 THEN {<<>>}
    ELSE LET shorter == SeqsUpTo(S, n - 1)
         IN shorter \cup {Append(s, x) : s \in {t \in shorter : Len(t) = n - 1}, x \in S}

ParsePages == SeqsUpTo(ParseNodes, MaxPageLen)

ParseIdle ==
    /\ html = <<>>
    /\ parsed = NotRun

SplitIdle ==
    /\ text = <<>>
    /\ limit = 0
    /\ parts = NotRun

\* _cache = {"ts": 0, "data": None}
NoData == [none |-> TRUE, items |-> <<>>]
EmptyCache == [ts |-> 0, data |-> NoData]

NoRun ==
    [handler |-> "none", weekday |-> 0, cmd |-> <<>>, at |-> 0,
     prior |-> [has |-> FALSE, t |-> 0, items |-> <<>>],
     scraped |-> FALSE, raised |-> FALSE, items |-> <<>>, fetched |-> 0,
     fetchFailed |-> FALSE, sent |-> <<>>, propagated |-> FALSE]

BotIdle ==
    /\ cache = EmptyCache
    /\ clock = 0
    /\ fetchCount = 0
    /\ lastOk = [has |-> FALSE, t |-> 0, items |-> <<>>]
    /\ run = NoRun

EmptyDb == [companies |-> <<>>, shareholders |-> <<>>, financials |-> <<>>]
NothingSeen == [companies |-> <<>>, details |-> <<>>]
NoJob ==
    [runNo |-> 0, phase |-> "idle", companies |-> <<>>, i |-> 0,
     inserted |-> 0, updated |-> 0, matched |-> 0, ops |-> 0,
     seen |-> NothingSeen, prevSeen |-> NothingSeen,
     sizeBefore |-> [companies |-> 0, shareholders |-> 0, financials |-> 0]]

StoreIdle ==
    /\ site = [companies |-> <<>>, shareholders |-> <<>>, financials |-> <<>>]
    /\ db = EmptyDb
    /\ job = NoJob

\* The Updater runs the handlers of commands in its dispatcher thread and the
\* callbacks of the JobQueue in the thread of the job queue.
Threads == {"jobqueue", "dispatcher"}

IdleFrame ==
    [pc |-> "idle", weekday |-> 0, cmd |-> <<>>, now |-> 0, items |-> <<>>,
     raised |-> FALSE, exc |-> <<>>, fetched |-> 0, refreshed |-> FALSE]

ThreadIdle ==
    /\ thread = [t \in Threads |-> IdleFrame]
    /\ stored = {EmptyCache}

FormatIdle ==
    /\ bucket = <<>>
    /\ listing = NotRun

ParseInit ==
    /\ html \in ParsePages
    /\ parsed = NotRun
    /\ SplitIdle
    /\ BotIdle
    /\ StoreIdle
    /\ ThreadIdle
    /\ FormatIdle

Parse ==
    /\ parsed = NotRun
    /\ parsed' = [ran |-> TRUE, result |-> parse_synthese(html)]
    /\ UNCHANGED <<html, splitVars, botVars, storeVars, threadVars, formatVars>>

SpecParse == ParseInit /\ [][Parse]_vars



(***************************************************************************)
(* Properties of parse_synthese                                            *)
(***************************************************************************)
Candidates(page) == {i \in 1..Len(page) : IsCandidate(page[i])}

\* no earlier candidate link has the same (code, name)
FirstOfKey(page, i) ==
    \A j \in Candidates(page) : j < i => KeyOf(page[j]) # KeyOf(page[i])

HasKey(results, key) ==
    \E k \in 1..Len(results) : <<results[k].code, results[k].name>> = key

\* position of the link a record was built from
LinkOf(page, r) ==
    CHOOSE i \in Candidates(page) : KeyOf(page[i]) = <<r.code, r.name>> /\ FirstOfKey(page, i)

\* C3: every emitted record has a non-empty code and an action among the four
\* of ACTION_MAP, no two records share (code, name), and the records follow
\* the document order of their links.
C3_EmittedWellFormed ==
    parsed.ran =>
        LET rs == parsed.result
        IN /\ \A k \in 1..Len(rs) : rs[k].code # <<>> /\ rs[k].action \in Actions
           /\ \A k, l \in 1..Len(rs) :
                  k < l => /\ <<rs[k].code, rs[k].name>> # <<rs[l].code, rs[l].name>>
                           /\ LinkOf(html, rs[k]) < LinkOf(html, rs[l])

\* the context of candidate i holds no image whose filename is in ACTION_MAP
NoIconInContext(page, i) == FirstAction(ContextImgs(page, i)) = None
\* the images the loop runs on hold no filename of ACTION_MAP
NoIconSearched(page, i) == FirstAction(SearchedImgs(page, i)) = None

\* C4 as stated: a candidate whose context (row or parent) holds no ACTION_MAP
\* image is never emitted; at most one record per candidate, and strictly
\* fewer records than candidates when some candidate lacks the icon.
C4_NoContextIconNoRecord ==
    parsed.ran =>
        LET rs == parsed.result
            cs == Candidates(html)
        IN /\ \A i \in cs :
                  NoIconInContext(html, i) /\ FirstOfKey(html, i) => ~HasKey(rs, KeyOf(html[i]))
           /\ Len(rs) <= Cardinality(cs)
           /\ (\E i \in cs : NoIconInContext(html, i)) => Len(rs) < Cardinality(cs)

\* C4 amended: a candidate is never emitted when the images the parser
\* searches for it (those of its context; when the context has none, the
\* following siblings; when there are none either, the next 6 images of the
\* document) hold no ACTION_MAP filename; the count bounds hold with that
\* reading of "lacks an icon".
C4_NoSearchedIconNoRecord ==
    parsed.ran =>
        LET rs == parsed.result
            cs == Candidates(html)
        IN /\ \A i \in cs :
                  NoIconSearched(html, i) /\ FirstOfKey(html, i) => ~HasKey(rs, KeyOf(html[i]))
           /\ Len(rs) <= Cardinality(cs)
           /\ (\E i \in cs : NoIconSearched(html, i)) => Len(rs) < Cardinality(cs)

\* a parsed page with one emitted link and one link dropped for want of an icon
C4_Witness ==
    /\ parsed.ran
    /\ Len(parsed.result) >= 1
    /\ \E i \in Candidates(html) : NoIconSearched(html, i) /\ FirstOfKey(html, i)

(***************************************************************************)
(* split_long_message                                                      *)
(***************************************************************************)
LineBreaks == {"\n", "\r"}

\* index of the last character of the first line of a non-empty s
\* (str.splitlines: a line ends at "\n", "\r" or "\r\n", or at the end of s)
LineEnd(s) ==
    LET bs == {i \in 1..Len(s) : s[i] \in LineBreaks}
    IN IF bs = {} THEN Len(s)
       ELSE LET b == CHOOSE i \in bs : \A j \in bs : i <= j
            IN IF s[b] = "\r" /\ b < Len(s) /\ s[b + 1] = "\n" THEN b + 1 ELSE b

\* text.splitlines(True)
RECURSIVE SplitLines(_)
SplitLines(s) ==
    IF s = <<>> THEN <<>>
    ELSE <<SubSeq(s, 1, LineEnd(s))>> \o SplitLines(SubSeq(s, LineEnd(s) + 1, Len(s)))

\* a splitter that closes the part as soon as the line would fill it
Overflows_AtLimit(cur, line, lim) == Len(cur) + Len(line) >= lim

\* if len(cur) + len(line) > limit
Overflows(cur, line, lim) == Len(cur) + Len(line) > lim

\* the for-loop over lines, then "if cur: parts.append(cur)"
RECURSIVE Pack(_, _, _, _)
Pack(lines, cur, acc, lim) ==
    IF lines = <<>> THEN (IF cur # <<>> THEN Append(acc, cur) ELSE acc)
    ELSE IF Overflows(cur, Head(lines), lim)
         THEN Pack(Tail(lines), Head(lines), Append(acc, cur), lim)
         ELSE Pack(Tail(lines), cur \o Head(lines), acc, lim)

split_long_message(t, lim) ==
    IF Len(t) <= lim THEN <<t>> ELSE Pack(SplitLines(t), <<>>, <<>>, lim)

DefaultLimit == 4000

MaxTextLen == 5
MaxLimit == 3
TextChars == {"a", "\n", "\r"}

SplitInit ==
    /\ text \in SeqsUpTo(TextChars, MaxTextLen)
    /\ limit \in 1..MaxLimit
    /\ parts = NotRun
    /\ ParseIdle
    /\ BotIdle
    /\ StoreIdle
    /\ ThreadIdle
    /\ FormatIdle

Split ==
    /\ ~parts.ran
    /\ parts' = [ran |-> TRUE, result |-> split_long_message(text, limit)]
    /\ UNCHANGED <<text, limit, parseVars, botVars, storeVars, threadVars, formatVars>>

SpecSplit == SplitInit /\ [][Split]_vars

(***************************************************************************)
(* Properties of split_long_message                                        *)
(***************************************************************************)
RECURSIVE Flatten(_)
Flatten(ss) == IF ss = <<>> THEN <<>> ELSE Head(ss) \o Flatten(Tail(ss))

\* the lines of every part, in order
LinesOfParts(ps) == Flatten([k \in 1..Len(ps) |-> SplitLines(ps[k])])

\* every part is made of whole lines of the text, in their order
WholeLines(t, ps) == LinesOfParts(ps) = SplitLines(t)

\* a part is closed only when the next line would not fit
Greedy(ps, lim) ==
    \A k \in 1..(Len(ps) - 1) : Len(ps[k]) + Len(Head(SplitLines(ps[k + 1]))) > lim

\* C5 as stated: the parts are whole lines of the text in order, every part
\* has at most limit characters, and lines are packed greedily.
C5_WholeLinesUnderLimit ==
    parts.ran =>
        /\ WholeLines(text, parts.result)
        /\ \A k \in 1..Len(parts.result) : Len(parts.result[k]) <= limit
        /\ Greedy(parts.result, limit)

\* C5 amended: the parts are whole lines of the text in order, packed
\* greedily, and a part has at most limit characters unless it is one single
\* line that is itself longer than limit.
C5_WholeLinesUnderLimitUnlessLongLine ==
    parts.ran =>
        /\ WholeLines(text, parts.result)
        /\ \A k \in 1..Len(parts.result) :
              \/ Len(parts.result[k]) <= limit
              \/ Len(SplitLines(parts.result[k])) = 1
        /\ Greedy(parts.result, limit)

\* a split into several parts, one holding two lines, one a single long line
C5_Witness ==
    /\ parts.ran
    /\ Len(parts.result) >= 2
    /\ \E k \in 1..Len(parts.result) : Len(SplitLines(parts.result[k])) >= 2
    /\ \E k \in 1..Len(parts.result) : Len(parts.result[k]) > limit

\* C12: the parts, concatenated in order, are the text, and no part is the
\* empty string when the text is not empty.
C12_ConcatNoEmptyPart ==
    parts.ran =>
        /\ Flatten(parts.result) = text
        /\ text # <<>> => \A k \in 1..Len(parts.result) : parts.result[k] # <<>>

(***************************************************************************)
(* group_by_action, format_items_sorted                                    *)
(***************************************************************************)
\* for it in items: if act in groups: groups[act].append(it)
RECURSIVE GroupFrom(_, _)
GroupFrom(items, groups) ==
    IF items = <<>> THEN groups
    ELSE GroupFrom(Tail(items),
                   IF Head(items).action \in DOMAIN groups
                   THEN [groups EXCEPT ![Head(items).action] = Append(@, Head(items))]
                   ELSE groups)

\* a grouping that files the KEEP records under BUY as well
group_by_action_KeepAsBuy(items) ==
    LET g == GroupFrom(items, [a \in Actions |-> <<>>])
    IN [g EXCEPT !["BUY"] = g["BUY"] \o g["KEEP"]]

group_by_action(items) == GroupFrom(items, [a \in Actions |-> <<>>])

\* the float held by a record: sign and hundredths (float("-0") is -0.0)
PotValue(p) == IF p.neg THEN 0 - p.mag ELSE p.mag

\* sorted(..., reverse=True) is stable: it goes behind the records already
\* placed whose key is greater or equal
InsertDesc(s, it) ==
    LET k == Cardinality({j \in 1..Len(s) : PotValue(s[j].potential) >= PotValue(it.potential)})
    IN SubSeq(s, 1, k) \o <<it>> \o SubSeq(s, k + 1, Len(s))

RECURSIVE SortFrom(_, _)
SortFrom(items, acc) ==
    IF items = <<>> THEN acc ELSE SortFrom(Tail(items), InsertDesc(acc, Head(items)))

\* sorted(items, key=lambda x: x.get("potential", 0.0), reverse=True)
SortedByPotential(items) == SortFrom(items, <<>>)

DigitChar(d) ==
    CASE d = 0 -> "0" [] d = 1 -> "1" [] d = 2 -> "2" [] d = 3 -> "3" [] d = 4 -> "4"
      [] d = 5 -> "5" [] d = 6 -> "6" [] d = 7 -> "7" [] d = 8 -> "8" [] d = 9 -> "9"

RECURSIVE Digits(_)
Digits(n) == IF n < 10 THEN <<DigitChar(n)>> ELSE Digits(n \div 10) \o <<DigitChar(n % 10)>>

\* f"{pot:.2f}"
Fmt2f(p) ==
    (IF p.neg THEN <<"-">> ELSE <<>>) \o Digits(p.mag \div 100) \o <<".">>
        \o <<DigitChar((p.mag \div 10) % 10), DigitChar(p.mag % 10)>>

\* sign = "+" if pot > 0 else ""
SignOf(p) == IF PotValue(p) > 0 THEN <<"+">> ELSE <<>>

\* f"{it.get('name')} ({it.get('code')}) <emdash> {sign}{pot:.2f}%"
FormatLine(it) ==
    it.name \o <<" ", "(">> \o it.code \o <<")", " ", "<emdash>", " ">>
        \o SignOf(it.potential) \o Fmt2f(it.potential) \o <<"%">>

\* "\n".join(lines)
RECURSIVE JoinLines(_)
JoinLines(lines) ==
    IF lines = <<>> THEN <<>>
    ELSE IF Len(lines) = 1 THEN Head(lines)
    ELSE Head(lines) \o <<"\n">> \o JoinLines(Tail(lines))

format_items_sorted(items) ==
    LET sorted == SortedByPotential(items)
    IN JoinLines([k \in 1..Len(sorted) |-> FormatLine(sorted[k])])

(***************************************************************************)
(* scrape_with_cache                                                       *)
(***************************************************************************)
CACHE_TTL == 300

\* truth value of _cache["data"]: None and the empty list are both false
Truthy(d) == ~d.none /\ d.items # <<>>

\* What fetch_page and parse_synthese do this time: return a page that is
\* parsed, or raise.  The result is [cache, raised, exc, items, fetched,
\* refreshed]: the cache afterwards, whether the call raised (and what),
\* what it returned, how many times it called fetch_page and whether it
\* stored a new extraction.
scrape_with_cache(c, now, outcome) ==
    IF Truthy(c.data) /\ now - c.ts < CACHE_TTL
    THEN [cache |-> c, raised |-> FALSE, exc |-> <<>>, items |-> c.data.items,
          fetched |-> 0, refreshed |-> FALSE]
    ELSE IF outcome.ok
    THEN LET items == parse_synthese(outcome.page)
         IN [cache |-> [ts |-> now, data |-> [none |-> FALSE, items |-> items]],
             raised |-> FALSE, exc |-> <<>>, items |-> items,
             fetched |-> 1, refreshed |-> TRUE]
    ELSE IF Truthy(c.data)
    THEN [cache |-> c, raised |-> FALSE, exc |-> <<>>, items |-> c.data.items,
          fetched |-> 1, refreshed |-> FALSE]
    ELSE [cache |-> c, raised |-> TRUE, exc |-> outcome.error, items |-> <<>>,
          fetched |-> 1, refreshed |-> FALSE]

(***************************************************************************)
(* send_buy_sell_notification                                              *)
(***************************************************************************)
\* tz_now.weekday() >= 5
IsWeekend_SundayOnly(weekday) == weekday >= 6

IsWeekend(weekday) == weekday >= 5

\* tz_now.strftime('%Y-%m-%d %H:%M %Z') of the morning trigger in the week of
\* Monday 2024-01-01
Stamp(weekday) ==
    <<"2", "0", "2", "4", "-", "0", "1", "-", "0">> \o <<DigitChar(weekday + 1)>> \o <<" ", "0", "9", ":", "3", "0", " ", "C", "E", "T">>

ScanOpen ==
    <<"<chart>", " ", "M", "a", "r", "k", "e", "t", " ", "s", "c", "a", "n",
      " ", "(">>

NoOpportunities ==
    <<"N", "o", " ", "B", "U", "Y", "/", "S", "E", "L", "L", " ", "o", "p",
      "p", "o", "r", "t", "u", "n", "i", "t", "i", "e", "s", " ", "f", "o",
      "u", "n", "d", ".">>

BuyTitle ==
    <<"<check>", " ", "B", "U", "Y", ":", "\n">>

SellTitle ==
    <<"<stop>", " ", "S", "E", "L", "L", ":", "\n">>

\* the messages of a scheduled run whose scrape returned items
JobMessages(items, weekday) ==
    LET groups == group_by_action(items)
        buy == groups["BUY"]
        sell == groups["SELL"]
    IN IF buy = <<>> /\ sell = <<>>
       THEN <<ScanOpen \o Stamp(weekday) \o <<")", "\n">> \o NoOpportunities>>
       ELSE split_long_message(
                ScanOpen \o Stamp(weekday) \o <<")", "\n", "\n">>
                  \o (IF buy # <<>>
                      THEN BuyTitle \o format_items_sorted(buy) \o <<"\n", "\n">> ELSE <<>>)
                  \o (IF sell # <<>>
                      THEN SellTitle \o format_items_sorted(sell) \o <<"\n", "\n">> ELSE <<>>),
                DefaultLimit)

\* except Exception: logger.exception(...); return
JobOnScrapeFailure(exc) == [sent |-> <<>>, propagated |-> FALSE]

(***************************************************************************)
(* cmd_start, cmd_list_handler                                             *)
(***************************************************************************)
Hello ==
    <<"H", "e", "l", "l", "o", " ", "<emdash>", " ", "I", " ", "s", "e", "n",
      "d", " ", "B", "U", "Y", "/", "S", "E", "L", "L", " ", "n", "o", "t",
      "i", "f", "i", "c", "a", "t", "i", "o", "n", "s", " ", "a", "t", " ",
      "0", "9", ":", "3", "0", " ", "a", "n", "d", " ", "1", "5", ":", "0",
      "0", " ", "T", "u", "n", "i", "s", "i", "a", " ", "t", "i", "m", "e",
      " ", "o", "n", " ", "w", "e", "e", "k", "d", "a", "y", "s", ".", "\n",
      "C", "o", "m", "m", "a", "n", "d", "s", ":", " ", "/", "w", "h", "a",
      "t", "_", "t", "o", "_", "b", "u", "y", " ", "/", "w", "h", "a", "t",
      "_", "t", "o", "_", "s", "e", "l", "l", " ", "/", "w", "h", "a", "t",
      "_", "t", "o", "_", "k", "e", "e", "p", " ", "/", "w", "h", "a", "t",
      "_", "t", "o", "_", "t", "a", "k", "e", "_", "p", "r", "o", "f", "i",
      "t">>

LowerChar(c) ==
    CASE c = "W" -> "w"
      [] c = "T" -> "t"
      [] c = "B" -> "b"
      [] OTHER -> c

\* s.lower()
Lower(s) == [i \in 1..Len(s) |-> LowerChar(s[i])]

\* s.split()[0] of a text that holds a word
FirstWord(s) ==
    LET t == Strip(s)
        ws == {i \in 1..Len(t) : t[i] \in Whitespace}
    IN IF ws = {} THEN t
       ELSE SubSeq(t, 1, (CHOOSE i \in ws : \A j \in ws : i <= j) - 1)

\* update.message.text.strip().split()[0].lower()
CommandOf(msgText) == Lower(FirstWord(Strip(msgText)))

WhatToBuy ==
    <<"/", "w", "h", "a", "t", "_", "t", "o", "_", "b", "u", "y">>
WhatToSell ==
    <<"/", "w", "h", "a", "t", "_", "t", "o", "_", "s", "e", "l", "l">>
WhatToKeep ==
    <<"/", "w", "h", "a", "t", "_", "t", "o", "_", "k", "e", "e", "p">>
WhatToTakeProfit ==
    <<"/", "w", "h", "a", "t", "_", "t", "o", "_", "t", "a", "k", "e", "_",
      "p", "r", "o", "f", "i", "t">>

mapping ==
    (WhatToBuy :> "BUY") @@ (WhatToSell :> "SELL") @@ (WhatToKeep :> "KEEP")
        @@ (WhatToTakeProfit :> "TAKE PROFIT")

\* f"{action}"
ActionText(a) ==
    CASE a = "BUY" -> <<"B", "U", "Y">>
      [] a = "SELL" -> <<"S", "E", "L", "L">>
      [] a = "KEEP" -> <<"K", "E", "E", "P">>
      [] a = "TAKE PROFIT" -> <<"T", "A", "K", "E", " ", "P", "R", "O", "F", "I", "T">>

UnknownCommand ==
    <<"U", "n", "k", "n", "o", "w", "n", " ", "c", "o", "m", "m", "a", "n",
      "d", ".">>

ErrorReply ==
    <<"E", "r", "r", "o", "r", " ", "f", "e", "t", "c", "h", "i", "n", "g",
      " ", "d", "a", "t", "a", ".", " ", "T", "r", "y", " ", "a", "g", "a",
      "i", "n", " ", "l", "a", "t", "e", "r", ".">>

NoItemsFor ==
    <<"N", "o", " ", "i", "t", "e", "m", "s", " ", "f", "o", "r", " ">>

ListTitle ==
    <<" ", "l", "i", "s", "t", " ", "(", "s", "o", "r", "t", "e", "d", " ",
      "b", "y", " ", "P", "o", "t", "e", "n", "t", "i", "a", "l", ")", ":",
      "\n", "\n">>

\* a handler that replies with the text of the exception
CmdOnScrapeFailure_Raw(exc) == [sent |-> <<exc>>, propagated |-> FALSE]

\* except Exception: update.message.reply_text("Error fetching data. ..."); return
CmdOnScrapeFailure(exc) == [sent |-> <<ErrorReply>>, propagated |-> FALSE]

\* the replies of a list command whose scrape returned items
CmdMessages(action, items) ==
    LET lst == group_by_action(items)[action]
    IN IF lst = <<>>
       THEN <<NoItemsFor \o ActionText(action) \o <<".">>>>
       ELSE split_long_message(
                ActionText(action) \o ListTitle \o format_items_sorted(lst), DefaultLimit)

(***************************************************************************)
(* The bot: the scheduled job and the command handlers, one run at a time  *)
(***************************************************************************)
StartClock == 1000
TickStep == 150
MaxTicks == 2
MaxFetches == 2

Weekdays == 0..6

HrefB == ConseilPrefix \o <<"b">>
HrefC == ConseilPrefix \o <<"c">>
HrefM == ConseilPrefix \o <<"m">>

Pct(neg, mag) == <<[neg |-> neg, mag |-> mag]>>

\* a page without a single candidate link
PageEmpty == <<>>
\* a page whose only asset is to be kept
PageKeep == <<Tr, Link(HrefB, <<"M">>), Img(F3B)>>
\* a page with two assets to buy, one to keep, one to sell, one to take profit on
PageMixed ==
    << Tr, Link(HrefA, <<"N">>), Img(F1B), Text(Pct(FALSE, 500)),
       Tr, Link(HrefB, <<"M">>), Img(F3B),
       Tr, Link(HrefC, <<"N">>), Img(F1B), Text(Pct(FALSE, 1250)),
       Tr, Link(HrefM, <<"M">>), Img(F5B), Text(Pct(TRUE, 320)),
       Tr, Link(HrefM, <<"N">>), Img(F4B) >>

BotPages == {PageEmpty, PageKeep, PageMixed}

FetchError ==
    <<"5", "0", "3", " ", "S", "e", "r", "v", "e", "r", " ", "E", "r", "r",
      "o", "r">>

Outcomes ==
    {[ok |-> TRUE, page |-> p, error |-> <<>>] : p \in BotPages}
        \cup {[ok |-> FALSE, page |-> <<>>, error |-> FetchError]}

MixedCaseBuy ==
    <<" ", "/", "W", "h", "a", "t", "_", "T", "o", "_", "B", "u", "y", " ",
      "n", "o", "w">>
BuyAtBot ==
    <<"/", "w", "h", "a", "t", "_", "t", "o", "_", "b", "u", "y", "@", "b",
      "o", "u", "r", "s", "e", "_", "b", "o", "t">>

CmdTexts == {WhatToBuy, WhatToSell, WhatToKeep, WhatToTakeProfit, MixedCaseBuy, BuyAtBot}

BotInit ==
    /\ cache = EmptyCache
    /\ clock = StartClock
    /\ fetchCount = 0
    /\ lastOk = [has |-> FALSE, t |-> 0, items |-> <<>>]
    /\ run = NoRun
    /\ ParseIdle
    /\ SplitIdle
    /\ StoreIdle
    /\ ThreadIdle
    /\ FormatIdle

\* time passes
Tick ==
    /\ clock + TickStep <= StartClock + MaxTicks * TickStep
    /\ clock' = clock + TickStep
    /\ UNCHANGED <<cache, fetchCount, lastOk, run, parseVars, splitVars, storeVars, threadVars, formatVars>>

\* what a run that called scrape_with_cache leaves behind
AfterScrape(r) ==
    /\ cache' = r.cache
    /\ fetchCount' = fetchCount + r.fetched
    /\ lastOk' = IF r.refreshed THEN [has |-> TRUE, t |-> clock, items |-> r.items] ELSE lastOk

RunOf(handler, weekday, msgText, r, out) ==
    [handler |-> handler, weekday |-> weekday, cmd |-> msgText, at |-> clock,
     prior |-> lastOk, scraped |-> TRUE, raised |-> r.raised, items |-> r.items,
     fetched |-> r.fetched, fetchFailed |-> (r.fetched = 1 /\ ~r.refreshed),
     sent |-> out.sent, propagated |-> out.propagated]

\* jq.run_daily(send_buy_sell_notification, ...) fires
ScheduledJob ==
    /\ fetchCount < MaxFetches
    /\ \E weekday \in Weekdays, outcome \in Outcomes :
          IF IsWeekend(weekday)
          THEN /\ run' = [NoRun EXCEPT !.handler = "job", !.weekday = weekday,
                                       !.at = clock, !.prior = lastOk]
               /\ UNCHANGED <<cache, fetchCount, lastOk>>
          ELSE LET r == scrape_with_cache(cache, clock, outcome)
               IN /\ AfterScrape(r)
                  /\ run' = RunOf("job", weekday, <<>>, r,
                                  IF r.raised THEN JobOnScrapeFailure(r.exc)
                                  ELSE [sent |-> JobMessages(r.items, weekday),
                                        propagated |-> FALSE])
    /\ UNCHANGED <<clock, parseVars, splitVars, storeVars, threadVars, formatVars>>

\* one of the four list commands arrives
ListCommand ==
    /\ fetchCount < MaxFetches
    /\ \E msgText \in CmdTexts, outcome \in Outcomes :
          IF CommandOf(msgText) \notin DOMAIN mapping
          THEN /\ run' = [NoRun EXCEPT !.handler = "cmd", !.cmd = msgText, !.at = clock,
                                       !.prior = lastOk, !.sent = <<UnknownCommand>>]
               /\ UNCHANGED <<cache, fetchCount, lastOk>>
          ELSE LET r == scrape_with_cache(cache, clock, outcome)
               IN /\ AfterScrape(r)
                  /\ run' = RunOf("cmd", 0, msgText, r,
                                  IF r.raised THEN CmdOnScrapeFailure(r.exc)
                                  ELSE [sent |-> CmdMessages(mapping[CommandOf(msgText)], r.items),
                                        propagated |-> FALSE])
    /\ UNCHANGED <<clock, parseVars, splitVars, storeVars, threadVars, formatVars>>

\* /start arrives
StartCommand ==
    /\ run' = [NoRun EXCEPT !.handler = "start", !.at = clock, !.prior = lastOk,
                            !.sent = <<Hello>>]
    /\ UNCHANGED <<cache, clock, fetchCount, lastOk, parseVars, splitVars, storeVars, threadVars, formatVars>>

Next == Tick \/ ScheduledJob \/ ListCommand \/ StartCommand

Spec == BotInit /\ [][Next]_vars

(***************************************************************************)
(* Properties of the cache and of the handlers                             *)
(***************************************************************************)
\* C1: a call made less than CACHE_TTL after the last successful fetch and
\* parse returns that extraction and does not call fetch_page, whatever the
\* extraction was (the empty list included).
C1_FreshCacheNoFetch ==
    (run.scraped /\ run.prior.has /\ run.at - run.prior.t < CACHE_TTL) =>
        /\ run.fetched = 0
        /\ ~run.raised
        /\ run.items = run.prior.items

\* C2: once a call has succeeded, a call after TTL expiry whose fetch or parse
\* raises returns the last extraction instead of raising; a call raises only
\* if no call has ever succeeded.
C2_StaleOnFailure ==
    /\ (run.scraped /\ run.fetchFailed /\ run.prior.has
            /\ run.at - run.prior.t >= CACHE_TTL) =>
           (~run.raised /\ run.items = run.prior.items)
    /\ (run.scraped /\ run.raised) => ~run.prior.has

\* C7: a scheduled run on a Saturday (5) or Sunday (6) sends nothing, does
\* not scrape and raises nothing.
C7_WeekendSilent ==
    (run.handler = "job" /\ run.weekday \in {5, 6}) =>
        /\ run.sent = <<>>
        /\ ~run.scraped
        /\ run.fetched = 0
        /\ ~run.propagated

\* a Saturday run while an extraction is at hand
C7_Witness ==
    /\ run.handler = "job"
    /\ run.weekday = 5
    /\ run.prior.has
    /\ run.prior.items # <<>>

IsBuy(it) == it.action = "BUY"
IsSell(it) == it.action = "SELL"
Occurrences(lines, l) == Cardinality({k \in 1..Len(lines) : lines[k] = l})
EndsWith(s, tail) == Len(s) >= Len(tail) /\ SubSeq(s, Len(s) - Len(tail) + 1, Len(s)) = tail

\* C8: a weekday scheduled run whose scrape succeeds sends the single "no
\* opportunities" message when it has nothing to buy and nothing to sell;
\* otherwise what it sends holds one BUY section iff there is something to
\* buy, one SELL section iff there is something to sell, and the line of a
\* record iff its action is BUY or SELL.
C8_BuySellSectionsOnly ==
    (run.handler = "job" /\ run.scraped /\ ~run.raised) =>
        LET buy == SelectSeq(run.items, IsBuy)
            sell == SelectSeq(run.items, IsSell)
            lines == SplitLines(Flatten(run.sent))
        IN IF buy = <<>> /\ sell = <<>>
           THEN Len(run.sent) = 1 /\ EndsWith(run.sent[1], NoOpportunities)
           ELSE /\ Occurrences(lines, BuyTitle) = (IF buy # <<>> THEN 1 ELSE 0)
                /\ Occurrences(lines, SellTitle) = (IF sell # <<>> THEN 1 ELSE 0)
                /\ \A k \in 1..Len(run.items) :
                      Occurrences(lines, FormatLine(run.items[k]) \o <<"\n">>)
                          = (IF run.items[k].action \in {"BUY", "SELL"} THEN 1 ELSE 0)

\* a weekday run over records to buy, to sell and to keep
C8_Witness ==
    /\ run.handler = "job"
    /\ run.scraped
    /\ ~run.raised
    /\ \E k \in 1..Len(run.items) : run.items[k].action = "BUY"
    /\ \E k \in 1..Len(run.items) : run.items[k].action = "SELL"
    /\ \E k \in 1..Len(run.items) : run.items[k].action = "KEEP"
    /\ run.sent # <<>>

\* C9: when scrape_with_cache raises, the scheduled job sends nothing and
\* lets nothing escape, and the list command replies once, with the fixed
\* error text.
C9_ScrapeFailureHandled ==
    (run.scraped /\ run.raised) =>
        /\ ~run.propagated
        /\ run.handler = "job" => run.sent = <<>>
        /\ run.handler = "cmd" => run.sent = <<ErrorReply>>

\* a list command whose scrape raised
C9_Witness ==
    /\ run.handler = "cmd"
    /\ run.scraped
    /\ run.raised
    /\ run.sent # <<>>

(***************************************************************************)
(* Detail scraper (scraper.py): the save operations and run                *)
(***************************************************************************)
MaxRuns == 2

\* the natural keys the update_one filters are built from
CompanyKey == {"code"}
ShareholderKey_WithStamp == {"company_code", "name", "scraped_at"}
ShareholderKey == {"company_code", "name"}
FinancialKey == {"company_code", "metric"}

Matches(d, doc, keys) == \A k \in keys : d[k] = doc[k]

\* collection.update_one({k: doc[k] for k in keys}, {'$set': doc}, upsert=True):
\* the first document matching the filter gets the fields of doc; when none
\* matches, a document with the fields of the filter and of doc is inserted
update_one(coll, keys, doc) ==
    LET hits == {j \in 1..Len(coll) : Matches(coll[j], doc, keys)}
    IN IF hits = {}
       THEN [coll |-> Append(coll, doc), upserted |-> 1, matched |-> 0, modified |-> 0]
       ELSE LET j == CHOOSE h \in hits : \A g \in hits : h <= g
            IN [coll |-> [coll EXCEPT ![j] = doc], upserted |-> 0, matched |-> 1,
                modified |-> IF coll[j] = doc THEN 0 ELSE 1]

\* for doc in docs: result = collection.update_one(...);
\* if result.upserted_id: inserted += 1  elif result.modified_count: updated += 1
RECURSIVE SaveAll(_, _, _)
SaveAll(docs, keys, acc) ==
    IF docs = <<>> THEN acc
    ELSE LET r == update_one(acc.coll, keys, Head(docs))
         IN SaveAll(Tail(docs), keys,
                    [coll |-> r.coll,
                     inserted |-> acc.inserted + r.upserted,
                     updated |-> acc.updated + (IF r.upserted = 0 THEN r.modified ELSE 0),
                     matched |-> acc.matched + r.matched,
                     ops |-> acc.ops + 1])

Fresh(coll) == [coll |-> coll, inserted |-> 0, updated |-> 0, matched |-> 0, ops |-> 0]

save_companies(coll, companies) == SaveAll(companies, CompanyKey, Fresh(coll))
save_shareholders(coll, shareholders) == SaveAll(shareholders, ShareholderKey, Fresh(coll))
save_financials(coll, financials) == SaveAll(financials, FinancialKey, Fresh(coll))

\* get_company_list: the rows of the list table, stamped with the time of the scrape
get_company_list(rows, now) ==
    [k \in 1..Len(rows) |->
        [code |-> rows[k].code, title |-> rows[k].title,
         url |-> <<"/marches/societe/", rows[k].code>>, scraped_at |-> now]]

\* scrape_shareholders: the rows of the shareholders table of the company's page
scrape_shareholders(company_code, rows, now) ==
    [k \in 1..Len(rows) |->
        [company_code |-> company_code, name |-> rows[k].name,
         percentage |-> rows[k].percentage, scraped_at |-> now]]

\* scrape_financials: the rows of the financials table of the company's page
scrape_financials(company_code, rows, now) ==
    [k \in 1..Len(rows) |->
        [company_code |-> company_code, metric |-> rows[k].metric,
         values |-> rows[k].values, scraped_at |-> now]]

CompanyLists ==
    { <<>>,
      <<[code |-> "A", title |-> "Alpha"]>>,
      <<[code |-> "A", title |-> "Alpha"], [code |-> "B", title |-> "Alpha"]>>,
      <<[code |-> "A", title |-> "Alpha"], [code |-> "A", title |-> "Alfa"]>> }

ShareholderTables ==
    { <<>>,
      <<[name |-> "n1", percentage |-> "10%"]>>,
      <<[name |-> "n1", percentage |-> "10%"], [name |-> "n2", percentage |-> "10%"],
        [name |-> "n1", percentage |-> "20%"]>> }

FinancialTables ==
    { <<[metric |-> "m1", values |-> <<"2023", "5">>]>>,
      <<[metric |-> "m1", values |-> <<"2023", "5">>],
        [metric |-> "m2", values |-> <<"2023", "7">>]>> }

StoreInit ==
    /\ site \in [companies : CompanyLists, shareholders : ShareholderTables,
                 financials : FinancialTables]
    /\ db = EmptyDb
    /\ job = NoJob
    /\ ParseIdle
    /\ SplitIdle
    /\ BotIdle
    /\ ThreadIdle
    /\ FormatIdle

Sizes(d) ==
    [companies |-> Len(d.companies), shareholders |-> Len(d.shareholders),
     financials |-> Len(d.financials)]

Count(j, r) ==
    [j EXCEPT !.inserted = @ + r.inserted, !.updated = @ + r.updated,
              !.matched = @ + r.matched, !.ops = @ + r.ops]

\* run(), up to the loop: the company list is fetched (or the request fails
\* and the list is empty) and saved
StartRun ==
    /\ job.phase \in {"idle", "done"}
    /\ job.runNo < MaxRuns
    /\ \E ok \in BOOLEAN :
          LET now == job.runNo + 1
              companies == IF ok THEN get_company_list(site.companies, now) ELSE <<>>
              r == save_companies(db.companies, companies)
              j == [NoJob EXCEPT !.runNo = now, !.companies = companies, !.i = 1,
                                 !.prevSeen = job.seen,
                                 !.seen = [companies |-> (IF ok THEN site.companies ELSE <<>>),
                                           details |-> <<>>],
                                 !.sizeBefore = Sizes(db)]
          IN IF companies = <<>>
             THEN /\ job' = [j EXCEPT !.phase = "done"]
                  /\ UNCHANGED db
             ELSE /\ job' = Count([j EXCEPT !.phase = "details"], r)
                  /\ db' = [db EXCEPT !.companies = r.coll]
    /\ UNCHANGED <<site, parseVars, splitVars, botVars, threadVars, formatVars>>

\* one turn of the loop of run(): the company's page is scraped twice (either
\* request may fail and yield no rows) and the rows are saved
ProcessCompany ==
    /\ job.phase = "details"
    /\ job.i <= Len(job.companies)
    /\ \E shOk \in BOOLEAN, finOk \in BOOLEAN :
          LET code == job.companies[job.i].code
              shRows == IF shOk THEN site.shareholders ELSE <<>>
              finRows == IF finOk THEN site.financials ELSE <<>>
              rs == save_shareholders(db.shareholders,
                                      scrape_shareholders(code, shRows, job.runNo))
              rf == save_financials(db.financials,
                                    scrape_financials(code, finRows, job.runNo))
          IN /\ db' = [db EXCEPT !.shareholders = rs.coll, !.financials = rf.coll]
             /\ job' = [Count(Count(job, rs), rf) EXCEPT
                            !.i = @ + 1,
                            !.seen.details = Append(@, <<shRows, finRows>>)]
    /\ UNCHANGED <<site, parseVars, splitVars, botVars, threadVars, formatVars>>

\* run(), after the loop: the summary is logged and the client closed
FinishRun ==
    /\ job.phase = "details"
    /\ job.i > Len(job.companies)
    /\ job' = [job EXCEPT !.phase = "done"]
    /\ UNCHANGED <<site, db, parseVars, splitVars, botVars, threadVars, formatVars>>

StoreNext == StartRun \/ ProcessCompany \/ FinishRun

SpecStore == StoreInit /\ [][StoreNext]_vars

(***************************************************************************)
(* Properties of the detail scraper                                        *)
(***************************************************************************)
UniqueBy(coll, keys) ==
    \A j, k \in 1..Len(coll) : j # k => ~Matches(coll[j], coll[k], keys)

\* C10: a run that saw the same data as the run before it inserts nothing
\* (each of its operations matched an existing record and the collections
\* kept their sizes), and no collection ever holds two records with the same
\* natural key.
C10_SecondRunOnlyUpdates ==
    /\ (job.runNo >= 2 /\ job.phase = "done" /\ job.seen = job.prevSeen) =>
           /\ job.inserted = 0
           /\ job.matched = job.ops
           /\ Sizes(db) = job.sizeBefore
    /\ UniqueBy(db.companies, {"code"})
    /\ UniqueBy(db.shareholders, {"company_code", "name"})
    /\ UniqueBy(db.financials, {"company_code", "metric"})

\* a second run over the same companies, shareholders and financials, done
C10_Witness ==
    /\ job.runNo = 2
    /\ job.phase = "done"
    /\ job.seen = job.prevSeen
    /\ job.ops >= 4
    /\ Len(db.shareholders) >= 2

(***************************************************************************)
(* The bot, statement by statement: main() starts the dispatcher and the   *)
(* job queue, whose threads both call scrape_with_cache on the one _cache, *)
(* which no lock guards.                                                   *)
(***************************************************************************)
ThreadWeekdays == {0, 5}
ThreadCmdTexts == {WhatToKeep, BuyAtBot}
ThreadOutcomes ==
    {[ok |-> TRUE, page |-> p, error |-> <<>>] : p \in {PageKeep, PageMixed}}
        \cup {[ok |-> FALSE, page |-> <<>>, error |-> FetchError]}

ThreadInit ==
    /\ cache = EmptyCache
    /\ clock = StartClock
    /\ fetchCount = 0
    /\ lastOk = [has |-> FALSE, t |-> 0, items |-> <<>>]
    /\ run = NoRun
    /\ ThreadIdle
    /\ FormatIdle
    /\ ParseIdle
    /\ SplitIdle
    /\ StoreIdle

Others == <<parseVars, splitVars, storeVars, formatVars>>

\* send_buy_sell_notification, lines 201-204: the weekday test
JobBegin ==
    /\ thread["jobqueue"].pc = "idle"
    /\ fetchCount < MaxFetches
    /\ \E weekday \in ThreadWeekdays :
          IF IsWeekend(weekday)
          THEN /\ run' = [NoRun EXCEPT !.handler = "job", !.weekday = weekday,
                                       !.at = clock, !.prior = lastOk]
               /\ UNCHANGED thread
          ELSE /\ thread' = [thread EXCEPT !["jobqueue"] =
                                [IdleFrame EXCEPT !.pc = "L146", !.weekday = weekday]]
               /\ UNCHANGED run
    /\ UNCHANGED <<cache, clock, fetchCount, lastOk, stored, Others>>

\* cmd_list_handler, lines 240-250: the command is looked up
CmdBegin ==
    /\ thread["dispatcher"].pc = "idle"
    /\ fetchCount < MaxFetches
    /\ \E msgText \in ThreadCmdTexts :
          IF CommandOf(msgText) \notin DOMAIN mapping
          THEN /\ run' = [NoRun EXCEPT !.handler = "cmd", !.cmd = msgText, !.at = clock,
                                       !.prior = lastOk, !.sent = <<UnknownCommand>>]
               /\ UNCHANGED thread
          ELSE /\ thread' = [thread EXCEPT !["dispatcher"] =
                                [IdleFrame EXCEPT !.pc = "L146", !.cmd = msgText]]
               /\ UNCHANGED run
    /\ UNCHANGED <<cache, clock, fetchCount, lastOk, stored, Others>>

\* scrape_with_cache, lines 146-148: the cache is read
ReadCache(t) ==
    /\ thread[t].pc = "L146"
    /\ thread' = [thread EXCEPT ![t] =
          IF Truthy(cache.data) /\ clock - cache.ts < CACHE_TTL
          THEN [@ EXCEPT !.pc = "return", !.now = clock, !.items = cache.data.items]
          ELSE [@ EXCEPT !.pc = "L150", !.now = clock]]
    /\ UNCHANGED <<cache, clock, fetchCount, lastOk, run, stored, Others>>

\* lines 150-151: the page is fetched and parsed, or one of the two raises
FetchAndParse(t) ==
    /\ thread[t].pc = "L150"
    /\ \E outcome \in ThreadOutcomes :
          thread' = [thread EXCEPT ![t] =
              IF outcome.ok
              THEN [@ EXCEPT !.pc = "L152", !.items = parse_synthese(outcome.page),
                             !.fetched = 1]
              ELSE [@ EXCEPT !.pc = "L158", !.exc = outcome.error, !.fetched = 1]]
    /\ fetchCount' = fetchCount + 1
    /\ UNCHANGED <<cache, clock, lastOk, run, stored, Others>>

\* line 152: _cache["data"] = items
StoreData(t) ==
    /\ thread[t].pc = "L152"
    /\ cache' = [cache EXCEPT !.data = [none |-> FALSE, items |-> thread[t].items]]
    /\ stored' = stored \cup {[ts |-> thread[t].now,
                               data |-> [none |-> FALSE, items |-> thread[t].items]]}
    /\ thread' = [thread EXCEPT ![t].pc = "L153"]
    /\ UNCHANGED <<clock, fetchCount, lastOk, run, Others>>

\* lines 153-154: _cache["ts"] = now; return items
StoreTs(t) ==
    /\ thread[t].pc = "L153"
    /\ cache' = [cache EXCEPT !.ts = thread[t].now]
    /\ lastOk' = [has |-> TRUE, t |-> thread[t].now, items |-> thread[t].items]
    /\ thread' = [thread EXCEPT ![t].pc = "return", ![t].refreshed = TRUE]
    /\ UNCHANGED <<clock, fetchCount, run, stored, Others>>

\* lines 155-160: the stale data are returned if there are any, else raise
OnFailure(t) ==
    /\ thread[t].pc = "L158"
    /\ thread' = [thread EXCEPT ![t] =
          IF Truthy(cache.data)
          THEN [@ EXCEPT !.pc = "return", !.items = cache.data.items]
          ELSE [@ EXCEPT !.pc = "return", !.raised = TRUE]]
    /\ UNCHANGED <<cache, clock, fetchCount, lastOk, run, stored, Others>>

\* send_buy_sell_notification, lines 206-231: what follows scrape_with_cache
JobFinish ==
    /\ thread["jobqueue"].pc = "return"
    /\ LET f == thread["jobqueue"]
       IN run' = RunOf("job", f.weekday, <<>>, f,
                       IF f.raised THEN JobOnScrapeFailure(f.exc)
                       ELSE [sent |-> JobMessages(f.items, f.weekday), propagated |-> FALSE])
    /\ thread' = [thread EXCEPT !["jobqueue"] = IdleFrame]
    /\ UNCHANGED <<cache, clock, fetchCount, lastOk, stored, Others>>

\* cmd_list_handler, lines 252-266: what follows scrape_with_cache
CmdFinish ==
    /\ thread["dispatcher"].pc = "return"
    /\ LET f == thread["dispatcher"]
       IN run' = RunOf("cmd", 0, f.cmd, f,
                       IF f.raised THEN CmdOnScrapeFailure(f.exc)
                       ELSE [sent |-> CmdMessages(mapping[CommandOf(f.cmd)], f.items),
                             propagated |-> FALSE])
    /\ thread' = [thread EXCEPT !["dispatcher"] = IdleFrame]
    /\ UNCHANGED <<cache, clock, fetchCount, lastOk, stored, Others>>

ThreadStep(t) ==
    ReadCache(t) \/ FetchAndParse(t) \/ StoreData(t) \/ StoreTs(t) \/ OnFailure(t)

ThreadNext ==
    \/ Tick
    \/ JobBegin
    \/ CmdBegin
    \/ \E t \in Threads : ThreadStep(t)
    \/ JobFinish
    \/ CmdFinish

SpecThreads == ThreadInit /\ [][ThreadNext]_vars

\* C6: whenever a caller reads the cache (on entering scrape_with_cache, or in
\* its except branch), the data and the timestamp it finds are those of one
\* and the same refresh (or the initial ones).
C6_RefreshAtomic ==
    \A t \in Threads : thread[t].pc \in {"L146", "L158"} => cache \in stored

(***************************************************************************)
(* format_items_sorted on its own                                          *)
(***************************************************************************)
MaxBucket == 3

\* the floats a record can hold: 0.0, -0.0 (as float("-0") gives), 5.0, -2.0, 10.0
Potentials ==
    { [neg |-> FALSE, mag |-> 0], [neg |-> TRUE, mag |-> 0], [neg |-> FALSE, mag |-> 500],
      [neg |-> TRUE, mag |-> 200], [neg |-> FALSE, mag |-> 1000] }

BucketItems ==
    { [code |-> c, name |-> <<"N">>, action |-> "BUY", potential |-> p] :
        c \in {<<"A">>, <<"B">>}, p \in Potentials }

FormatInit ==
    /\ bucket \in SeqsUpTo(BucketItems, MaxBucket)
    /\ listing = NotRun
    /\ ParseIdle
    /\ SplitIdle
    /\ BotIdle
    /\ StoreIdle
    /\ ThreadIdle

Format ==
    /\ ~listing.ran
    /\ listing' = [ran |-> TRUE, result |-> format_items_sorted(bucket)]
    /\ UNCHANGED <<bucket, parseVars, splitVars, botVars, storeVars, threadVars>>

SpecFormat == FormatInit /\ [][Format]_vars

(***************************************************************************)
(* Properties of format_items_sorted                                       *)
(***************************************************************************)
\* the place of record i among the lines: behind the records of greater
\* potential and behind the earlier records of equal potential
Rank(items, i) ==
    1 + Cardinality({j \in 1..Len(items) :
            \/ PotValue(items[j].potential) > PotValue(items[i].potential)
            \/ /\ PotValue(items[j].potential) = PotValue(items[i].potential)
               /\ j < i})

\* "+" before a positive value, "-" before a negative one, nothing before zero
SignedText(p) ==
    (IF PotValue(p) > 0 THEN <<"+">> ELSE IF PotValue(p) < 0 THEN <<"-">> ELSE <<>>)
        \o Fmt2f([neg |-> FALSE, mag |-> p.mag])

LineAsClaimed(it) ==
    it.name \o <<" ", "(">> \o it.code \o <<")", " ", "<emdash>", " ">>
        \o SignedText(it.potential) \o <<"%">>

\* C11: the listing has one line per record, by potential descending with
\* equal potentials in their original order, and each line shows "+" exactly
\* for a positive potential, "-" for a negative one and no sign for zero.
C11_SortedSignedLines ==
    listing.ran =>
        LET lines == SplitLines(listing.result)
        IN /\ Len(lines) = Len(bucket)
           /\ \A i \in 1..Len(bucket) :
                 lines[Rank(bucket, i)] =
                     LineAsClaimed(bucket[i])
                         \o (IF Rank(bucket, i) < Len(bucket) THEN <<"\n">> ELSE <<>>)

=============================================================================
